---------------------------- MODULE Spec2Model ----------------------------
(***************************************************************************)
(* Discount-code pricing engine (orders/models.py, products/models.py).    *)
(*                                                                         *)
(* Money.  A Decimal is modelled by the integer number of 1/10000 currency *)
(* units it denotes: 10.00 is 100000, 0.05 is 500.  Every amount stored in *)
(* a DecimalField(decimal_places=2) is a multiple of 100; a percentage     *)
(* discount of such an amount has at most four decimals, so the Decimal    *)
(* arithmetic of the source (28 significant digits) is exact and is        *)
(* modelled by exact integer arithmetic.                                   *)
(*                                                                         *)
(* Nullable fields.  A nullable field holds None, the empty tuple, or      *)
(* Some(v), the one-element tuple <<v>>.                                   *)
(*                                                                         *)
(* Python values.  What a call returns is Dec(v) (a Decimal), PyNone (the  *)
(* value None) or TypeError (the call raised TypeError).                   *)
(***************************************************************************)
EXTENDS Integers, Sequences, FiniteSets, Bags, TLC

VARIABLES
    discount_code,   \* the DiscountCode row
    today,           \* timezone.now().date(), a day number
    is_payment,      \* Order.is_payment of every Order row
    orderdetail,     \* the OrderDetail table: a bag of [order, product, count]
    call             \* the last call made on the models and what it returned

vars == <<discount_code, today, is_payment, orderdetail, call>>

---------------------------------------------------------------------------
(* Bounds of the model *)

\* amounts 0.00 .. MaxCents/100 are enumerated cent by cent
MaxCents == 6
\* days 0 .. MaxDay
MaxDay == 3
\* OrderDetail rows in the table
MaxLines == 2
\* OrderDetail.count ranges over 1 .. MaxCount
MaxCount == 2

---------------------------------------------------------------------------
(* Values *)

None == <<>>
Some(v) == <<v>>

Dec(v) == [kind |-> "Decimal", val |-> v]
PyNone == [kind |-> "None", val |-> 0]
TypeError == [kind |-> "TypeError", val |-> 0]

\* one cent, in model units
Cent == 100

\* round(d, 2) of a Decimal: quantize to two places, ROUND_HALF_EVEN
Round2(v) ==
    LET q == v \div Cent
        r == v % Cent
    IN  IF 2 * r < Cent THEN q * Cent
        ELSE IF 2 * r > Cent THEN (q + 1) * Cent
        ELSE IF q % 2 = 0 THEN q * Cent
        ELSE (q + 1) * Cent

\* round(x, 2) of a Python value: None has no __round__, an exception propagates
round(x) ==
    IF x.kind = "Decimal" THEN Dec(Round2(x.val)) ELSE TypeError

---------------------------------------------------------------------------
(* products/models.py: the catalogue *)

ProductCategory == {"P", "C", "G", "R"}

\* ProductCategory.parent
parent == [c \in ProductCategory |->
             CASE c = "C" -> Some("P")
               [] c = "G" -> Some("C")
               [] OTHER   -> None]

Product == {"p1", "p2", "p3", "p4", "p5"}

\* Product.category (not nullable)
category == [p \in Product |->
               CASE p = "p1" -> "C"
                 [] p = "p2" -> "C"
                 [] p = "p3" -> "P"
                 [] p = "p4" -> "G"
                 [] OTHER    -> "R"]

\* Product.price
price == [p \in Product |->
            CASE p = "p1" -> 1000000
              [] p = "p2" -> 500
              [] p = "p3" -> 0
              [] p = "p4" -> 100000
              [] OTHER    -> 300000]

---------------------------------------------------------------------------
(* orders/models.py: calculate_discount_price, compute_discount_amount *)

calculate_discount_price(original_price, discount_percentage) ==
    IF original_price <= 0 \/ discount_percentage <= 0
    THEN PyNone   \* ValueError raised, caught and printed: falls off the end
    ELSE LET discount_amount == (original_price * discount_percentage) \div 100
             discounted_price == original_price - discount_amount
         IN  Dec(discounted_price)

\* the minimum purchase requirement is met, if specified
meets_min_purchase(dc, total) ==
    dc.min_purchase = None
    \/ (dc.min_purchase # None /\ dc.min_purchase[1] <= total)

\* the three discount modes, and the fall through when neither field is set
discount_modes(dc, total) ==
    IF dc.off_price # None /\ dc.off_per = None
    THEN Dec(total - dc.off_price[1])
    ELSE IF dc.off_price = None /\ dc.off_per # None
    THEN calculate_discount_price(total, dc.off_per[1])
    ELSE IF dc.off_price # None /\ dc.off_per # None
    THEN LET percentage == calculate_discount_price(total, dc.off_per[1])
         IN  IF percentage.kind # "Decimal"
             THEN TypeError   \* total - None
             ELSE LET decreased_amount == total - percentage.val
                  IN  IF decreased_amount > dc.off_price[1]
                      THEN Dec(total - dc.off_price[1])
                      ELSE calculate_discount_price(total, dc.off_per[1])
    ELSE Dec(total)

\* mutant: the minimum purchase is not looked at
compute_discount_amount_any_purchase(dc, total) ==
    discount_modes(dc, total)

\* mutant: a discounted amount below zero is raised to zero
compute_discount_amount_floored(dc, total) ==
    IF meets_min_purchase(dc, total)
    THEN LET d == discount_modes(dc, total)
         IN  IF d.kind = "Decimal" /\ d.val < 0 THEN Dec(0) ELSE d
    ELSE Dec(total)

compute_discount_amount(dc, total) ==
    IF meets_min_purchase(dc, total)
    THEN discount_modes(dc, total)
    ELSE Dec(total)

---------------------------------------------------------------------------
(* orders/models.py: DiscountCode *)

\* validators of DiscountCode.off_per: MinValueValidator(0), MaxValueValidator(100)
MinOffPer == 0
MaxOffPer == 100

\* a DiscountCode row as the field defaults make it, activated
\* (the unique code string plays no part in pricing and is left out)
NewDiscountCode ==
    [off_per |-> None, off_price |-> None, min_purchase |-> None,
     is_active |-> TRUE, is_delete |-> FALSE, is_first |-> FALSE,
     exp_date |-> None, quantity |-> None,
     category |-> None, product |-> None]

\* mutant: a code expires on its expiry date, not after it
is_valid_expiring_on(dc) ==
    IF ~dc.is_active \/ dc.is_delete THEN FALSE
    ELSE IF dc.quantity # None /\ dc.quantity[1] <= 0 THEN FALSE
    ELSE IF dc.off_price = None /\ dc.off_per = None THEN FALSE
    ELSE IF dc.exp_date # None /\ dc.exp_date[1] <= today THEN FALSE
    ELSE TRUE

is_valid(dc) ==
    IF ~dc.is_active \/ dc.is_delete THEN FALSE
    ELSE IF dc.quantity # None /\ dc.quantity[1] <= 0 THEN FALSE
    ELSE IF dc.off_price = None /\ dc.off_per = None THEN FALSE
    ELSE IF dc.exp_date # None /\ dc.exp_date[1] < today THEN FALSE
    ELSE TRUE

---------------------------------------------------------------------------
(* Calls: what the last call was given and what it returned *)

\* call holds the last call made on the tables as they now stand: a write to
\* a table, or the clock moving on, forgets it
NoCall == [op |-> "none"]

\* Order rows: o1 is the order being placed, o2 an earlier order of the same
\* user, o3 an order of another user
Order == {"o1", "o2", "o3"}

\* Order.user
user == [o \in Order |-> IF o = "o3" THEN "u2" ELSE "u1"]

\* the tables no order has touched yet
NoOrders ==
    /\ today = 0
    /\ is_payment = [o \in Order |-> FALSE]
    /\ orderdetail = EmptyBag

---------------------------------------------------------------------------
(* SpecCalc: compute_discount_amount applied to a code and a total *)

\* amounts of two decimals: every cent up to MaxCents, and 10.00, 15.00,
\* 30.00, 100.00
Amount == {Cent * c : c \in 0 .. MaxCents} \cup {100000, 150000, 300000, 1000000}

OffPer == {None} \cup {Some(n) : n \in MinOffPer .. MaxOffPer}
OffPrice == {None} \cup {Some(a) : a \in Amount}
MinPurchase == {None, Some(0), Some(3 * Cent), Some(100000)}

CalcInit ==
    /\ discount_code \in
         {[NewDiscountCode EXCEPT !.off_per = a, !.off_price = b,
                                  !.min_purchase = m, !.is_active = v] :
            a \in OffPer, b \in OffPrice, m \in MinPurchase, v \in BOOLEAN}
    /\ NoOrders
    /\ call = NoCall

CallComputeDiscountAmount(total) ==
    /\ call' = [op |-> "compute_discount_amount", total |-> total,
                ret |-> compute_discount_amount(discount_code, total)]
    /\ UNCHANGED <<discount_code, today, is_payment, orderdetail>>

CalcNext == \E total \in Amount : CallComputeDiscountAmount(total)

SpecCalc == CalcInit /\ [][CalcNext]_vars


\* the call made was compute_discount_amount
ComputeCalled == call.op = "compute_discount_amount"

\* C1: with off_price and off_per both set and the minimum purchase met,
\* compute_discount_amount returns total - off_price when the percentage
\* reduction total * off_per / 100 is strictly greater than off_price, and
\* total - total * off_per / 100 otherwise, for every total and every off_per
\* in 0..100.
C1_SmallerReduction ==
    (/\ ComputeCalled
     /\ is_valid(discount_code)
     /\ discount_code.off_price # None /\ discount_code.off_per # None
     /\ meets_min_purchase(discount_code, call.total))
    => LET total == call.total
           off_per == discount_code.off_per[1]
           off_price == discount_code.off_price[1]
       IN  /\ call.ret.kind = "Decimal"
           /\ IF total * off_per > 100 * off_price
              THEN call.ret.val = total - off_price
              ELSE 100 * call.ret.val = 100 * total - total * off_per

\* C3 as stated: compute_discount_amount returns the total unchanged whenever
\* the code is not valid, or min_purchase is set and total < min_purchase
\* (stated of the calls that return an amount).
C3_UnchangedWhenInvalidOrBelowMin ==
    (/\ ComputeCalled
     /\ call.ret.kind = "Decimal"
     /\ \/ ~is_valid(discount_code)
        \/ (discount_code.min_purchase # None
            /\ call.total < discount_code.min_purchase[1]))
    => call.ret = Dec(call.total)

\* C3 as amended: compute_discount_amount returns the total unchanged whenever
\* min_purchase is set and total < min_purchase, valid code or not; a result
\* other than the total is returned only when min_purchase is absent or
\* min_purchase <= total.
C3_UnchangedBelowMin ==
    ComputeCalled =>
      /\ (discount_code.min_purchase # None
          /\ call.total < discount_code.min_purchase[1])
         => call.ret = Dec(call.total)
      /\ call.ret # Dec(call.total)
         => \/ discount_code.min_purchase = None
            \/ discount_code.min_purchase[1] <= call.total

\* C3 witness: a valid code taking 0.05 off purchases of 10.00 or more was
\* applied to a total of 0.06, which came back unchanged.
C3_BelowMinReached ==
    /\ ComputeCalled
    /\ is_valid(discount_code)
    /\ discount_code.min_purchase = Some(100000)
    /\ discount_code.off_price = Some(5 * Cent)
    /\ discount_code.off_per = None
    /\ call.total = 6 * Cent
    /\ call.ret = Dec(6 * Cent)

\* C7: with exactly one mode set on a valid code and the minimum purchase
\* met, compute_discount_amount returns exactly total - off_price when only
\* off_price is set (no floor at zero), and exactly total * (1 - off_per/100)
\* when only off_per is set, off_per is in (0,100] and total > 0.
C7_SingleMode ==
    (/\ ComputeCalled
     /\ is_valid(discount_code)
     /\ meets_min_purchase(discount_code, call.total))
    => /\ (discount_code.off_price # None /\ discount_code.off_per = None)
          => call.ret = Dec(call.total - discount_code.off_price[1])
       /\ (/\ discount_code.off_price = None /\ discount_code.off_per # None
           /\ discount_code.off_per[1] > 0 /\ discount_code.off_per[1] <= 100
           /\ call.total > 0)
          => /\ call.ret.kind = "Decimal"
             /\ 100 * call.ret.val
                  = call.total * (100 - discount_code.off_per[1])

\* C7 witness: a fixed 15.00 off a total of 10.00 returned -5.00.
C7_NegativeResultReached ==
    /\ ComputeCalled
    /\ is_valid(discount_code)
    /\ discount_code.off_price = Some(150000)
    /\ discount_code.off_per = None
    /\ discount_code.min_purchase = None
    /\ call.total = 100000
    /\ call.ret = Dec(-50000)

---------------------------------------------------------------------------
(* SpecValid: DiscountCode.is_valid as the days pass *)

Quantity == {None, Some(0), Some(1)}
ExpDate == {None} \cup {Some(d) : d \in 0 .. MaxDay}

ValidInit ==
    /\ discount_code \in
         {[NewDiscountCode EXCEPT !.is_active = a, !.is_delete = d,
                                  !.quantity = q, !.exp_date = e,
                                  !.off_per = per, !.off_price = pr] :
            a \in BOOLEAN, d \in BOOLEAN, q \in Quantity, e \in ExpDate,
            per \in {None, Some(20)}, pr \in {None, Some(100000)}}
    /\ NoOrders
    /\ call = NoCall

\* the clock: timezone.now().date() moves on a day
Tick ==
    /\ today < MaxDay
    /\ today' = today + 1
    /\ call' = NoCall
    /\ UNCHANGED <<discount_code, is_payment, orderdetail>>

CallIsValid ==
    /\ call' = [op |-> "is_valid", ret |-> is_valid(discount_code)]
    /\ UNCHANGED <<discount_code, today, is_payment, orderdetail>>

ValidNext == Tick \/ CallIsValid

SpecValid == ValidInit /\ [][ValidNext]_vars


\* C2: is_valid returns false exactly when is_active is false, or is_delete
\* is true, or quantity is present and <= 0, or off_price and off_per are
\* both absent, or exp_date is present and strictly before today; a code
\* whose exp_date is today, or absent, is valid when nothing else rules it out.
C2_IsValidExactly ==
    call.op = "is_valid" =>
      (call.ret = FALSE
       <=> \/ discount_code.is_active = FALSE
           \/ discount_code.is_delete = TRUE
           \/ (discount_code.quantity # None /\ discount_code.quantity[1] <= 0)
           \/ (discount_code.off_price = None /\ discount_code.off_per = None)
           \/ (discount_code.exp_date # None /\ discount_code.exp_date[1] < today))

\* C2 witness: days have passed, the code expires today, and is_valid
\* returned true.
C2_ExpiresTodayReached ==
    /\ call.op = "is_valid"
    /\ today > 0
    /\ discount_code.exp_date = Some(today)
    /\ call.ret = TRUE

---------------------------------------------------------------------------
(* orders/models.py: the helpers of OrderDetail.get_total_price_detail *)

is_category_match(dc, product) ==
    LET is_category_matched == dc.category = Some(category[product])
        is_product_available == dc.product = None
    IN  is_category_matched /\ is_product_available

is_product_match(dc, product) ==
    LET product_matched == dc.product = Some(product)
        is_category_available == dc.category = None
    IN  product_matched /\ is_category_available

\* mutant: the parent of the product's category is not accepted
is_category_and_product_match_own(dc, product) ==
    dc.category = Some(category[product]) /\ dc.product = Some(product)

\* product.category.parent may be None, and so may discount_code.category:
\* None is then a member of the set
is_category_and_product_match(dc, product) ==
    LET is_category_matched ==
            dc.category \in {Some(category[product]), parent[category[product]]}
        is_product_matched == dc.product = Some(product)
    IN  is_category_matched /\ is_product_matched

is_discount_applicable(dc, product) ==
    \/ is_category_match(dc, product)
    \/ is_product_match(dc, product)
    \/ is_category_and_product_match(dc, product)

---------------------------------------------------------------------------
(* SpecMatch: the scope of a code against every product of the catalogue *)

MatchInit ==
    /\ discount_code \in
         {[NewDiscountCode EXCEPT !.off_per = Some(20),
                                  !.category = c, !.product = p] :
            c \in {None} \cup {Some(x) : x \in ProductCategory},
            p \in {None} \cup {Some(x) : x \in Product}}
    /\ NoOrders
    /\ call = NoCall

CallIsDiscountApplicable(product) ==
    /\ call' = [op |-> "is_discount_applicable", product |-> product,
                category_match |-> is_category_match(discount_code, product),
                product_match |-> is_product_match(discount_code, product),
                category_and_product_match |->
                    is_category_and_product_match(discount_code, product),
                ret |-> is_discount_applicable(discount_code, product)]
    /\ UNCHANGED <<discount_code, today, is_payment, orderdetail>>

MatchNext == \E product \in Product : CallIsDiscountApplicable(product)

SpecMatch == MatchInit /\ [][MatchNext]_vars


\* C5: for a code with category or product set and every product,
\* is_discount_applicable is true exactly when the code's category is the
\* product's and the code has no product, or the code's product is the
\* product and the code has no category, or the code's product is the
\* product and the code's category is the product's category or its
\* immediate parent.
C5_ApplicableExactly ==
    (/\ call.op = "is_discount_applicable"
     /\ (discount_code.category # None \/ discount_code.product # None))
    => LET c == category[call.product]
       IN  call.ret
           <=> \/ (discount_code.category = Some(c) /\ discount_code.product = None)
               \/ (discount_code.product = Some(call.product)
                   /\ discount_code.category = None)
               \/ (/\ discount_code.product = Some(call.product)
                   /\ discount_code.category # None
                   /\ \/ discount_code.category = Some(c)
                      \/ discount_code.category = parent[c])

\* C5 witness: a code on category P and product p1, whose category C has
\* parent P, was found applicable to p1.
C5_ParentCategoryReached ==
    /\ call.op = "is_discount_applicable"
    /\ discount_code.category = Some("P")
    /\ discount_code.product = Some("p1")
    /\ call.product = "p1"
    /\ parent[category["p1"]] = Some("P")
    /\ call.ret = TRUE

\* C9: for every code and every product at most one of is_category_match,
\* is_product_match and is_category_and_product_match is true.
C9_MutuallyExclusive ==
    call.op = "is_discount_applicable" =>
      /\ ~(call.category_match /\ call.product_match)
      /\ ~(call.category_match /\ call.category_and_product_match)
      /\ ~(call.product_match /\ call.category_and_product_match)

---------------------------------------------------------------------------
(* orders/models.py: Order, OrderDetail *)

\* Order.discount_code: the order being placed carries the code, the other
\* orders carry none
order_discount_code == [o \in Order |-> IF o = "o1" THEN Some(discount_code) ELSE None]

\* mutant: the unpaid orders of the user are looked up
paid_order_set_unpaid(o) == {x \in Order : user[x] = user[o] /\ ~is_payment[x]}

\* order.user.order_set.filter(is_payment=True)
paid_order_set(o) == {x \in Order : user[x] = user[o] /\ is_payment[x]}

\* OrderDetail.get_total_price_detail: ret is what it returns, computed
\* whether it called compute_discount_amount
get_total_price_detail(od) ==
    LET base_price == od.count * price[od.product]
        code == order_discount_code[od.order]
    IN  IF code = None \/ ~is_valid(code[1])
        THEN [ret |-> round(Dec(base_price)), computed |-> FALSE]
        ELSE IF code[1].is_first /\ paid_order_set(od.order) # {}
        THEN [ret |-> round(Dec(base_price)), computed |-> FALSE]
        ELSE IF is_discount_applicable(code[1], od.product)
        THEN [ret |-> round(compute_discount_amount(code[1], base_price)),
              computed |-> TRUE]
        ELSE [ret |-> round(Dec(base_price)), computed |-> FALSE]

\* self.orderdetail_set.all()
orderdetail_set(o) == {od \in BagToSet(orderdetail) : od.order = o}

\* the loop of get_total_price_order over the rows S: an exception raised by
\* a row leaves the loop
RECURSIVE accumulate(_)
accumulate(S) ==
    IF S = {} THEN Dec(0)
    ELSE LET od == CHOOSE x \in S : TRUE
             line == get_total_price_detail(od).ret
             rest == accumulate(S \ {od})
         IN  IF line.kind # "Decimal" \/ rest.kind # "Decimal"
             THEN TypeError
             ELSE Dec(rest.val + CopiesIn(od, orderdetail) * line.val)

\* mutant: a code restricted to a category or a product is taken for an
\* order-level code
no_restrictions_unchecked(dc) == TRUE

\* no specific product or category restrictions for the discount code
no_restrictions(dc) == dc.category = None /\ dc.product = None

\* Order.get_total_price_order: ret is what it returns, computed whether it
\* called compute_discount_amount itself, total_amount what the loop summed
get_total_price_order(o) ==
    LET total_amount == accumulate(orderdetail_set(o))
        code == order_discount_code[o]
    IN  IF total_amount.kind # "Decimal"
        THEN [ret |-> TypeError, computed |-> FALSE, total_amount |-> total_amount]
        ELSE IF /\ code # None /\ is_valid(code[1])
                /\ no_restrictions(code[1])
                /\ \/ code[1].is_first /\ paid_order_set(o) = {}
                   \/ ~code[1].is_first
        THEN [ret |-> round(compute_discount_amount(code[1], total_amount.val)),
              computed |-> TRUE, total_amount |-> total_amount]
        ELSE [ret |-> round(total_amount), computed |-> FALSE,
              total_amount |-> total_amount]

---------------------------------------------------------------------------
(* Spec: an order is filled, priced and paid *)

\* OrderDetail.count
Count == 1 .. MaxCount

\* the products put into the order
LineProduct == {"p1", "p2", "p3"}

Init ==
    /\ discount_code \in
         {[NewDiscountCode EXCEPT !.off_per = per, !.off_price = pr,
                                  !.is_first = f,
                                  !.category = c, !.product = p] :
            per \in {None, Some(0), Some(50)}, pr \in {None, Some(300000)},
            f \in BOOLEAN,
            c \in {None, Some("P"), Some("C")},
            p \in {None, Some("p1"), Some("p3")}}
    /\ NoOrders
    /\ call = NoCall

\* OrderDetail.objects.create(order=o1, product=product, count=count)
AddOrderDetail(product, count) ==
    /\ BagCardinality(orderdetail) < MaxLines
    /\ orderdetail' = orderdetail (+)
                        SetToBag({[order |-> "o1", product |-> product, count |-> count]})
    /\ call' = NoCall
    /\ UNCHANGED <<discount_code, today, is_payment>>

\* the payment collaborator sets Order.is_payment
Pay(o) ==
    /\ ~is_payment[o]
    /\ is_payment' = [is_payment EXCEPT ![o] = TRUE]
    /\ call' = NoCall
    /\ UNCHANGED <<discount_code, today, orderdetail>>

CallGetTotalPriceDetail(od) ==
    /\ call' = [op |-> "get_total_price_detail", od |-> od]
                 @@ get_total_price_detail(od)
    /\ UNCHANGED <<discount_code, today, is_payment, orderdetail>>

CallGetTotalPriceOrder(o) ==
    /\ call' = [op |-> "get_total_price_order", order |-> o]
                 @@ get_total_price_order(o)
    /\ UNCHANGED <<discount_code, today, is_payment, orderdetail>>

Next ==
    \/ \E product \in LineProduct, count \in Count : AddOrderDetail(product, count)
    \/ \E o \in Order : Pay(o)
    \/ \E od \in BagToSet(orderdetail) : CallGetTotalPriceDetail(od)
    \/ \E o \in Order : CallGetTotalPriceOrder(o)

Spec == Init /\ [][Next]_vars


\* count * product.price of a row, rounded to two places
base(od) == Round2(od.count * price[od.product])

\* the sum of base over the rows S, a row counted as often as the table holds it
RECURSIVE base_total(_)
base_total(S) ==
    IF S = {} THEN 0
    ELSE LET od == CHOOSE x \in S : TRUE
         IN  CopiesIn(od, orderdetail) * base(od) + base_total(S \ {od})

\* the user of order o has an order with is_payment = true
HasPaidOrder(o) == \E x \in Order : user[x] = user[o] /\ is_payment[x]

\* C4: when the order's code is is_first and the ordering user has a paid
\* order, every line total is round(count * product.price, 2) and the order
\* total is the sum of those line totals, whatever off_per, off_price,
\* category and product the code has.
C4_FirstTimeForfeited ==
    \A o \in Order :
      (/\ order_discount_code[o] # None
       /\ discount_code.is_first
       /\ HasPaidOrder(o))
      => /\ (call.op = "get_total_price_detail" /\ call.od.order = o)
            => call.ret = Dec(base(call.od))
         /\ (call.op = "get_total_price_order" /\ call.order = o)
            => call.ret = Dec(base_total(orderdetail_set(o)))

\* C4 witness: a valid first-time code of 50% or 30.00 off the whole order,
\* an earlier order of the user paid, and the order of one p1 priced at
\* its base of 100.00.
C4_ForfeitedReached ==
    /\ call.op = "get_total_price_order" /\ call.order = "o1"
    /\ discount_code.is_first /\ is_valid(discount_code)
    /\ discount_code.off_per = Some(50) /\ discount_code.off_price = Some(300000)
    /\ no_restrictions(discount_code)
    /\ is_payment["o2"] /\ ~is_payment["o1"]
    /\ orderdetail = SetToBag({[order |-> "o1", product |-> "p1", count |-> 1]})
    /\ call.ret = Dec(1000000)

\* C6: a code is never applied twice to an order.  With neither category nor
\* product set every line total is the base and compute_discount_amount is
\* applied once, to the summed total (when the code is valid and the
\* first-time rule admits the user, and not at all otherwise); with a
\* category or a product set compute_discount_amount is applied to matching
\* lines only and never to the summed total.
C6_AppliedOnce ==
    \A o \in Order :
      (/\ call.op = "get_total_price_order" /\ call.order = o
       /\ order_discount_code[o] # None)
      => IF discount_code.category = None /\ discount_code.product = None
         THEN /\ \A od \in orderdetail_set(o) :
                   /\ ~get_total_price_detail(od).computed
                   /\ get_total_price_detail(od).ret = Dec(base(od))
              /\ call.total_amount = Dec(base_total(orderdetail_set(o)))
              /\ call.computed
                 <=> (is_valid(discount_code)
                      /\ (~discount_code.is_first \/ ~HasPaidOrder(o)))
              /\ call.computed
                 => call.ret = round(compute_discount_amount(
                                       discount_code, base_total(orderdetail_set(o))))
              /\ ~call.computed
                 => call.ret = Dec(base_total(orderdetail_set(o)))
         ELSE /\ ~call.computed
              /\ call.ret = round(call.total_amount)
              /\ \A od \in orderdetail_set(o) :
                   /\ get_total_price_detail(od).computed
                      => is_discount_applicable(discount_code, od.product)
                   /\ ~get_total_price_detail(od).computed
                      => get_total_price_detail(od).ret = Dec(base(od))

\* C6 witness: an order of two rows under a valid order-level code of 30.00
\* off was priced at the sum of its bases less 30.00.
C6_OrderLevelReached ==
    /\ call.op = "get_total_price_order" /\ call.order = "o1"
    /\ is_valid(discount_code) /\ no_restrictions(discount_code)
    /\ discount_code.off_price = Some(300000) /\ discount_code.off_per = None
    /\ BagCardinality(orderdetail) = 2
    /\ call.computed
    /\ call.total_amount.val >= 1000000
    /\ call.ret = Dec(base_total(orderdetail_set("o1")) - 300000)

\* C8: when calculate_discount_price rejects its input (amount <= 0 or
\* percentage <= 0) its callers take that for no discount:
\* get_total_price_detail and get_total_price_order return the undiscounted
\* amount and do not fail, for percentage-only codes and for codes with
\* off_per and off_price both set.
C8_RejectedInputIsNoDiscount ==
    \A o \in Order :
      (order_discount_code[o] # None /\ discount_code.off_per # None)
      => /\ (/\ call.op = "get_total_price_detail" /\ call.od.order = o
             /\ (call.od.count * price[call.od.product] <= 0
                 \/ discount_code.off_per[1] <= 0))
            => call.ret = Dec(base(call.od))
         /\ (/\ call.op = "get_total_price_order" /\ call.order = o
             /\ orderdetail_set(o) # {}
             /\ discount_code.off_per[1] <= 0)
            => call.ret = Dec(base_total(orderdetail_set(o)))

\* C10: for an order carrying a valid is_first code whose user has no other
\* paid order, get_total_price_order and every get_total_price_detail return
\* the same before and after the order's own is_payment is set to true
\* (stated of the orders that have rows and a price before the payment).
C10_OwnPaymentKeepsPrice ==
    [][\A o \in Order :
         (/\ ~is_payment[o] /\ is_payment'[o]
          /\ orderdetail_set(o) # {}
          /\ get_total_price_order(o).ret.kind = "Decimal"
          /\ orderdetail' = orderdetail /\ discount_code' = discount_code
          /\ order_discount_code[o] # None
          /\ is_valid(discount_code) /\ discount_code.is_first
          /\ \A x \in Order \ {o} : user[x] = user[o] => ~is_payment[x])
         => /\ get_total_price_order(o).ret' = get_total_price_order(o).ret
            /\ \A od \in orderdetail_set(o) :
                 get_total_price_detail(od).ret' = get_total_price_detail(od).ret]_vars

=============================================================================
